---- MODULE Spec2Model ----
(***************************************************************************)
(* A model of the rdf vocabulary parser: ParseVocabulary, the @context     *)
(* resolver parseJSONLDContext, the traversal engine apply / doApply with  *)
(* its first-match dispatch, the ParsingContext override accessors, and    *)
(* the Vocabulary insertion methods of data.go.                            *)
(*                                                                         *)
(* Handlers (RDFNode implementations) and the registry are collaborators   *)
(* of the engine: a handler call is a nondeterministic choice of what it   *)
(* reports and of which ParsingContext accessor it uses.                   *)
(***************************************************************************)
EXTENDS Integers, Sequences, FiniteSets, TLC

VARIABLES
    input,          \* the JSONLD document handed to ParseVocabulary
    registry,       \* the RDFRegistry handed to ParseVocabulary
    pc,             \* where ParseVocabulary is: start, context, apply, done
    rs,             \* parseJSONLDContext's loop position
    nodes,          \* the []RDFNode built so far / used for traversal
    regCalls,       \* history: the registry lookups made, in order
    ctx,            \* the ParsingContext
    frames,         \* the call stack of apply / doApply, innermost first
    vocabulary,     \* ParseVocabulary's first result
    err,            \* ParseVocabulary's second result
    cur,            \* history: the latest enter/apply/exitFirstNode call
    claimed,        \* history: keys some handler reported handled
    builtinClaimed, \* history: keys a built-in handler reported handled
    uses,           \* history: how often GetNextNodes has returned the next-level
                    \* override since SetOnlyApplyThisNodeNextLevel was last called
    voc,            \* a Vocabulary (data.go), for the insertion methods
    vocRet,         \* the latest insertion: what was asked and returned
    ent,            \* a vocabulary entity (data.go), for SetURI
    uriRet,         \* the latest SetURI: what was asked and returned
    scopeRet        \* the latest Push, Pop, Reset or assignment of Current or
                    \* Name made on ctx outside a parse

vars == <<input, registry, pc, rs, nodes, regCalls, ctx, frames, vocabulary,
          err, cur, claimed, builtinClaimed, uses, voc, vocRet, ent, uriRet,
          scopeRet>>

parseVars == <<input, registry, pc, rs, nodes, regCalls, ctx, frames,
               vocabulary, err, cur, claimed, builtinClaimed, uses>>

vocVars == <<voc, vocRet, ent, uriRet, scopeRet>>

(***************************************************************************)
(* Bounds of the model.                                                    *)
(***************************************************************************)
MaxArrLen == 2
MaxCtxLen == 2
MaxUses == 2
MaxURILen == 3
MaxStack == 2

(***************************************************************************)
(* JSON values: map[string]interface{}, []interface{}, string, and one     *)
(* non-string scalar.                                                      *)
(***************************************************************************)
JSON_LD_CONTEXT == "@context"
JSON_LD_TYPE == "@type"
JSON_LD_TYPE_AS == "type"

Str(s) == [t |-> "string", s |-> s]
Num == [t |-> "number"]
Obj(m) == [t |-> "map", m |-> m]
Arr(a) == [t |-> "array", a |-> a]

IsMap(v) == v.t = "map"
IsArr(v) == v.t = "array"
IsStr(v) == v.t = "string"

Range(s) == {s[i] : i \in DOMAIN s}

Nil == "nil"

(***************************************************************************)
(* Errors.                                                                 *)
(***************************************************************************)
NoErr == [kind |-> "nil"]
ErrNoContext == [kind |-> "no @context in input"]
ErrContext(what) == [kind |-> "malformed @context", what |-> what]
ErrRegistry(name) == [kind |-> "registry", name |-> name]
ErrHandler(h) == [kind |-> "handler", h |-> h]
ErrRequestedNode == [kind |-> "applying requested node failed"]

(***************************************************************************)
(* Handlers.  "J" is the built-in JSON-LD handler; "A" and "B" belong to   *)
(* ontologies of the same names.                                           *)
(***************************************************************************)
BuiltinHandlers == {"J"}
OntologyHandlers == {"A", "B"}
Handlers == BuiltinHandlers \cup OntologyHandlers

jsonLDNodes == <<"J">>

(***************************************************************************)
(* The registry: a table from ontology name to handler list.               *)
(***************************************************************************)
DefaultRegistry == ("A" :> <<"A">>) @@ ("B" :> <<"B">>)
EmptyNameRegistry == ("" :> <<"B">>) @@ DefaultRegistry
Registries == {DefaultRegistry, EmptyNameRegistry}

getFor(r, s) ==
    IF s \in DOMAIN r THEN [nodes |-> r[s], err |-> NoErr]
    ELSE [nodes |-> <<>>, err |-> ErrRegistry(s)]

getAliased(r, alias, s) ==
    IF s \in DOMAIN r THEN [nodes |-> r[s], err |-> NoErr]
    ELSE [nodes |-> <<>>, err |-> ErrRegistry(alias)]

getAliasedObject(r, alias, object) ==
    IF /\ "@id" \in DOMAIN object
       /\ IsStr(object["@id"])
       /\ object["@id"].s \in DOMAIN r
    THEN [nodes |-> r[object["@id"].s], err |-> NoErr]
    ELSE [nodes |-> <<>>, err |-> ErrRegistry(alias)]

(***************************************************************************)
(* The documents.  Bodies vary the keys "@type", "type" and "k" and the    *)
(* shape of k's value under one @context, and one nests objects two deep;  *)
(* contexts vary the shape of @context over one body.                      *)
(***************************************************************************)
Scalar == Str("v")
InnerKeys == {JSON_LD_TYPE, "k"}
InnerObjects == {Obj([k \in S |-> Scalar]) : S \in SUBSET InnerKeys}
Elements == {Scalar, Obj("k" :> Scalar)}
Arrays == {Arr(a) : a \in UNION {[1..n -> Elements] : n \in 0..MaxArrLen}}
KValues == {Scalar} \cup InnerObjects \cup Arrays

Bodies ==
    {[k \in S |-> Scalar] : S \in SUBSET {JSON_LD_TYPE, JSON_LD_TYPE_AS}}
    \cup {("k" :> v) @@ [k \in S |-> Scalar] :
            v \in KValues, S \in SUBSET {JSON_LD_TYPE, JSON_LD_TYPE_AS}}

IdObject == Obj("@id" :> Str("B"))
AliasValues == {Str("A"), Str("U"), IdObject, Num}
AliasMaps == {Obj(m) : m \in UNION {[S -> AliasValues] : S \in SUBSET {"ex", "ex2"}}}
ContextElements ==
    {Str("A"), Str("B"), Str("U"), Num,
     Obj(("ex" :> Str("A")) @@ ("ex2" :> IdObject))}
ContextArrays ==
    {Arr(a) : a \in UNION {[1..n -> ContextElements] : n \in 0..MaxCtxLen}}
Contexts == {Str("A"), Str("U"), Num} \cup AliasMaps \cup ContextArrays

ContextBody == "k" :> Scalar

\* An object in an object in the document.
NestedBody == "k" :> Obj("k" :> Obj("k" :> Scalar))

Documents ==
    {(JSON_LD_CONTEXT :> Str("A")) @@ b : b \in Bodies \cup {NestedBody}}
    \cup {(JSON_LD_CONTEXT :> c) @@ ContextBody : c \in Contexts}
    \cup {ContextBody}

(***************************************************************************)
(* Vocabulary (data.go).                                                   *)
(***************************************************************************)
EmptyMap == [n \in {} |-> Nil]
EmptyVocabulary == [Types |-> EmptyMap, Properties |-> EmptyMap, Values |-> EmptyMap]
ErrExists(kind) == [kind |-> "name already exists", in |-> kind]


\* SetType without the test for an existing name.
SetTypeOverwrite(v, name, a) ==
    [v |-> [v EXCEPT !.Types = (name :> a) @@ [n \in DOMAIN @ \ {name} |-> @[n]]],
     err |-> NoErr]

SetType(v, name, a) ==
    IF name \in DOMAIN v.Types
    THEN [v |-> v, err |-> ErrExists("Types")]
    ELSE [v |-> [v EXCEPT !.Types = (name :> a) @@ v.Types], err |-> NoErr]

SetProperty(v, name, a) ==
    IF name \in DOMAIN v.Properties
    THEN [v |-> v, err |-> ErrExists("Properties")]
    ELSE [v |-> [v EXCEPT !.Properties = (name :> a) @@ v.Properties], err |-> NoErr]

SetValue(v, name, a) ==
    IF name \in DOMAIN v.Values
    THEN [v |-> v, err |-> ErrExists("Values")]
    ELSE [v |-> [v EXCEPT !.Values = (name :> a) @@ v.Values], err |-> NoErr]

(***************************************************************************)
(* url.Parse, as far as SetURI depends on it.  A string is a sequence of   *)
(* characters over a letter (also a hex digit), ":", "/" and "%"; strings  *)
(* that hold "//" (an authority) are left out.                             *)
(***************************************************************************)
URIChars == {"a", ":", "/", "%"}
Letters == {"a"}
HexDigits == {"a"}

HasAuthority(s) == \E i \in 1..(Len(s) - 1) : s[i] = "/" /\ s[i + 1] = "/"

URIStrings ==
    {s \in UNION {[1..n -> URIChars] : n \in 0..MaxURILen} : ~HasAuthority(s)}

NilURL == [kind |-> "nil"]
ErrURI(what) == [kind |-> "parse", what |-> what]

From(s, i) == SubSeq(s, i, Len(s))

\* The first index of s whose character is no letter, 0 if there is none.
FirstNonLetter(s) ==
    IF \A i \in DOMAIN s : s[i] \in Letters THEN 0
    ELSE CHOOSE i \in DOMAIN s :
            /\ s[i] \notin Letters
            /\ \A j \in 1..(i - 1) : s[j] \in Letters

\* url.getScheme: "scheme:" is split off when letters are followed by ":".
getScheme(s) ==
    LET i == FirstNonLetter(s)
    IN  IF i = 0 \/ s[i] # ":"
        THEN [scheme |-> <<>>, rest |-> s, err |-> NoErr]
        ELSE IF i = 1
        THEN [scheme |-> <<>>, rest |-> <<>>, err |-> ErrURI("missing protocol scheme")]
        ELSE [scheme |-> SubSeq(s, 1, i - 1), rest |-> From(s, i + 1), err |-> NoErr]

\* url.unescape of a path: "%" must be followed by two hex digits, which
\* stand for one byte.
RECURSIVE unescape(_)
unescape(s) ==
    IF s = <<>> THEN [s |-> <<>>, err |-> NoErr]
    ELSE IF s[1] # "%"
    THEN LET r == unescape(Tail(s))
         IN  [s |-> <<s[1]>> \o r.s, err |-> r.err]
    ELSE IF Len(s) >= 3 /\ s[2] \in HexDigits /\ s[3] \in HexDigits
    THEN LET r == unescape(From(s, 4))
         IN  [s |-> <<"0xaa">> \o r.s, err |-> r.err]
    ELSE [s |-> <<>>, err |-> ErrURI("invalid URL escape")]

\* The first segment of a path without scheme and leading "/" holds ":".
ColonInFirstSegment(rest) ==
    \E i \in DOMAIN rest :
        rest[i] = ":" /\ \A j \in 1..(i - 1) : rest[j] # "/"

\* url.Parse(s): the URL and no error, or no URL and the error.
urlParse(s) ==
    LET g == getScheme(s)
        rootless == g.rest = <<>> \/ g.rest[1] # "/"
        p == unescape(g.rest)
    IN  IF g.err # NoErr THEN [url |-> NilURL, err |-> g.err]
        ELSE IF rootless /\ g.scheme # <<>>
        THEN [url |-> [kind |-> "URL", Scheme |-> g.scheme, Opaque |-> g.rest, Path |-> <<>>],
              err |-> NoErr]
        ELSE IF rootless /\ ColonInFirstSegment(g.rest)
        THEN [url |-> NilURL, err |-> ErrURI("first path segment in URL cannot contain colon")]
        ELSE IF p.err # NoErr THEN [url |-> NilURL, err |-> p.err]
        ELSE [url |-> [kind |-> "URL", Scheme |-> g.scheme, Opaque |-> <<>>, Path |-> p.s],
              err |-> NoErr]

(***************************************************************************)
(* The vocabulary entities (data.go) and their SetURI.                     *)
(***************************************************************************)
EntityKinds ==
    {"VocabularyValue", "VocabularyType", "VocabularyProperty",
     "VocabularyExample", "VocabularyReference"}

NewEntity(kind) == [kind |-> kind, Name |-> "", URI |-> NilURL]

\* A SetURI that leaves the URI alone when the string does not parse.
SetURIKeepingOld(v, s) ==
    LET got == urlParse(s)
    IN  [v |-> IF got.err = NoErr THEN [v EXCEPT !.URI = got.url] ELSE v,
         err |-> got.err]

VocabularyValueSetURI(v, s) ==
    LET got == urlParse(s) IN [v |-> [v EXCEPT !.URI = got.url], err |-> got.err]

VocabularyTypeSetURI(v, s) ==
    LET got == urlParse(s) IN [v |-> [v EXCEPT !.URI = got.url], err |-> got.err]

VocabularyPropertySetURI(v, s) ==
    LET got == urlParse(s) IN [v |-> [v EXCEPT !.URI = got.url], err |-> got.err]

VocabularyExampleSetURI(v, s) ==
    LET got == urlParse(s) IN [v |-> [v EXCEPT !.URI = got.url], err |-> got.err]

VocabularyReferenceSetURI(v, s) ==
    LET got == urlParse(s) IN [v |-> [v EXCEPT !.URI = got.url], err |-> got.err]

(***************************************************************************)
(* ParsingContext and its accessors.                                       *)
(***************************************************************************)
\* The nil interface{} value of Current and of Stack's elements.
NoEntity == [kind |-> "nil"]

\* Some value that is no vocabulary entity: it has no GetName.
Nameless == [kind |-> "other"]

\* ng, ok := p.Current.(nameGetter): the five entity kinds have GetName.
IsNameGetter(c) == c.kind \in EntityKinds

GetName(c) == c.Name

NewParsingContext ==
    [Result |-> [Vocab |-> EmptyVocabulary, References |-> EmptyMap],
     Current |-> NoEntity,
     Name |-> "",
     Stack |-> <<>>,
     OnlyApplyThisNodeNextLevel |-> Nil,
     OnlyApplied |-> FALSE,
     OnlyApplyThisNode |-> Nil]

SetOnlyApplyThisNode(p, n) == [p EXCEPT !.OnlyApplyThisNode = n]

ResetOnlyApplyThisNode(p) == [p EXCEPT !.OnlyApplyThisNode = Nil]

SetOnlyApplyThisNodeNextLevel(p, n) ==
    [p EXCEPT !.OnlyApplyThisNodeNextLevel = n, !.OnlyApplied = FALSE]

ResetOnlyAppliedThisNodeNextLevel(p) ==
    [p EXCEPT !.OnlyApplyThisNodeNextLevel = Nil, !.OnlyApplied = FALSE]

\* A clearFn that clears the whole-document override, too.
clearFnBoth(p, armed) ==
    IF armed THEN [p EXCEPT !.OnlyApplied = FALSE, !.OnlyApplyThisNode = Nil] ELSE p

\* A Pop that leaves Name alone.
PopKeepingName(p) ==
    [p EXCEPT !.Current = p.Stack[1], !.Stack = Tail(p.Stack)]

Push(p) == [p EXCEPT !.Stack = <<p.Current>> \o p.Stack, !.Current = NoEntity]

\* Pop on a Stack that is not empty.
Pop(p) ==
    LET c == p.Stack[1]
    IN  [p EXCEPT !.Current = c,
                  !.Stack = Tail(p.Stack),
                  !.Name = IF IsNameGetter(c) THEN GetName(c) ELSE @]

IsReset(p) == p.Current = NoEntity /\ p.Name = ""

Reset(p) == [p EXCEPT !.Current = NoEntity, !.Name = ""]

\* A GetNextNodes that returns the override whether consumed or not.
GetNextNodesConsumedToo(p, n) ==
    IF p.OnlyApplyThisNodeNextLevel = Nil
    THEN [r |-> n, p |-> p, armed |-> FALSE]
    ELSE [r |-> <<p.OnlyApplyThisNodeNextLevel>>,
          p |-> [p EXCEPT !.OnlyApplied = TRUE],
          armed |-> ~p.OnlyApplied]

\* GetNextNodes: the list for enter/apply/exit, the context afterwards, and
\* whether the returned clearFn is the one that resets OnlyApplied.
GetNextNodes(p, n) ==
    IF p.OnlyApplyThisNodeNextLevel = Nil
    THEN [r |-> n, p |-> p, armed |-> FALSE]
    ELSE IF p.OnlyApplied
    THEN [r |-> n, p |-> p, armed |-> FALSE]
    ELSE [r |-> <<p.OnlyApplyThisNodeNextLevel>>,
          p |-> [p EXCEPT !.OnlyApplied = TRUE],
          armed |-> TRUE]

\* A clearFn that leaves OnlyApplied alone.
clearFnNothing(p, armed) == p

\* The clearFn GetNextNodes returned, called by doApply's defer.
clearFn(p, armed) == IF armed THEN [p EXCEPT !.OnlyApplied = FALSE] ELSE p

(***************************************************************************)
(* parseJSONLDContext, one registry lookup per step.                       *)
(* rs.i is the index of the array element in hand, rs.seen the aliases     *)
(* of the map in hand already ranged over, rs.done that the function has   *)
(* returned without error.                                                 *)
(***************************************************************************)
\* i, ok := input[JSON_LD_CONTEXT]: a missing key reads as nil.
Null == [t |-> "nil"]
ContextValue == IF JSON_LD_CONTEXT \in DOMAIN input THEN input[JSON_LD_CONTEXT] ELSE Null

\* The map whose alias/value pairs are being ranged over, if any.
AliasMap ==
    IF IsMap(ContextValue) THEN ContextValue.m
    ELSE IF /\ IsArr(ContextValue)
            /\ rs.i <= Len(ContextValue.a)
            /\ IsMap(ContextValue.a[rs.i])
    THEN ContextValue.a[rs.i].m
    ELSE EmptyMap

\* parseJSONLDContext without the test for a missing @context.
HasContextAlways(doc) == TRUE

\* Lines 122-127 and 263-267: ParseVocabulary calls parseJSONLDContext,
\* which looks @context up.
HasContext(doc) == JSON_LD_CONTEXT \in DOMAIN doc

\* How ParseVocabulary returns when parseJSONLDContext failed (lines 125-127).
ContextFailed(e) ==
    /\ pc' = "done"
    /\ err' = e
    /\ UNCHANGED <<input, registry, rs, nodes, ctx, frames, vocabulary, cur,
                   claimed, builtinClaimed, uses>>

ParseJSONLDContext ==
    /\ pc = "start"
    /\ IF HasContext(input)
       THEN /\ pc' = "context"
            /\ UNCHANGED <<input, registry, rs, nodes, regCalls, ctx, frames,
                           vocabulary, err, cur, claimed, builtinClaimed, uses>>
       ELSE /\ ContextFailed(ErrNoContext)
            /\ UNCHANGED regCalls
    /\ UNCHANGED vocVars

\* A pair's lookup that asks by name for an object, too.
AliasLookupByName(r, alias, val) ==
    IF IsStr(val) THEN getAliased(r, alias, val.s)
    ELSE IF IsMap(val) THEN getFor(r, alias)
    ELSE [nodes |-> <<>>, err |-> ErrContext("value in dict is neither a dict nor a string")]

\* Lines 274-291 and 309-326: one alias/value pair of a map.
AliasLookup(r, alias, val) ==
    IF IsStr(val) THEN getAliased(r, alias, val.s)
    ELSE IF IsMap(val) THEN getAliasedObject(r, alias, val.m)
    ELSE [nodes |-> <<>>, err |-> ErrContext("value in dict is neither a dict nor a string")]

AliasCall(alias, val) ==
    IF IsStr(val) THEN <<[fn |-> "getAliased", alias |-> alias, arg |-> val]>>
    ELSE IF IsMap(val) THEN <<[fn |-> "getAliasedObject", alias |-> alias, arg |-> val]>>
    ELSE <<>>

\* The lookup's nodes put in front of those collected so far.
PrependNodes(ns, n) == n \o ns

\* nodes = append(nodes, n...)
AppendNodes(ns, n) == ns \o n

ContextAlias ==
    /\ pc = "context"
    /\ ~rs.done
    /\ \E alias \in DOMAIN AliasMap \ rs.seen :
        LET val == AliasMap[alias]
            got == AliasLookup(registry, alias, val)
        IN  /\ regCalls' = regCalls \o AliasCall(alias, val)
            /\ IF got.err # NoErr
               THEN ContextFailed(got.err)
               ELSE /\ nodes' = AppendNodes(nodes, got.nodes)
                    /\ rs' = [rs EXCEPT !.seen = @ \cup {alias}]
                    /\ UNCHANGED <<input, registry, pc, ctx, frames, vocabulary,
                                   err, cur, claimed, builtinClaimed, uses>>
    /\ UNCHANGED vocVars

\* Lines 270-305: one element of an array @context; an element that is a
\* map is left once its pairs have all been ranged over.
ContextElement ==
    /\ pc = "context"
    /\ ~rs.done
    /\ IsArr(ContextValue)
    /\ rs.i <= Len(ContextValue.a)
    /\ LET iVal == ContextValue.a[rs.i]
       IN  IF IsMap(iVal)
           THEN /\ rs.seen = DOMAIN iVal.m
                /\ rs' = [rs EXCEPT !.i = @ + 1, !.seen = {}]
                /\ UNCHANGED <<input, registry, pc, nodes, regCalls, ctx, frames,
                               vocabulary, err, cur, claimed, builtinClaimed, uses>>
           ELSE IF IsStr(iVal)
           THEN LET got == getFor(registry, iVal.s)
                IN  /\ regCalls' = Append(regCalls, [fn |-> "getFor", alias |-> "", arg |-> iVal])
                    /\ IF got.err # NoErr
                       THEN ContextFailed(got.err)
                       ELSE /\ nodes' = AppendNodes(nodes, got.nodes)
                            /\ rs' = [rs EXCEPT !.i = @ + 1]
                            /\ UNCHANGED <<input, registry, pc, ctx, frames, vocabulary,
                                           err, cur, claimed, builtinClaimed, uses>>
           ELSE /\ ContextFailed(ErrContext("value in array is neither a dict nor a string"))
                /\ UNCHANGED regCalls
    /\ UNCHANGED vocVars

\* Lines 328-335: @context is neither an array nor a map.  The failed type
\* assertion leaves s empty, and the function returns what the registry
\* answers for s.
SingleName(i) == IF IsStr(i) THEN i.s ELSE ""

ContextSingle ==
    /\ pc = "context"
    /\ ~rs.done
    /\ ~IsArr(ContextValue)
    /\ ~IsMap(ContextValue)
    /\ LET s == SingleName(ContextValue)
           got == getFor(registry, s)
       IN  /\ regCalls' = Append(regCalls, [fn |-> "getFor", alias |-> "", arg |-> Str(s)])
           /\ IF got.err # NoErr
              THEN ContextFailed(got.err)
              ELSE /\ nodes' = got.nodes
                   /\ rs' = [rs EXCEPT !.done = TRUE]
                   /\ UNCHANGED <<input, registry, pc, ctx, frames, vocabulary,
                                  err, cur, claimed, builtinClaimed, uses>>
    /\ UNCHANGED vocVars

\* parseJSONLDContext has returned its nodes without error.
ContextResolved ==
    \/ rs.done
    \/ IsArr(ContextValue) /\ rs.i > Len(ContextValue.a)
    \/ IsMap(ContextValue) /\ rs.seen = DOMAIN ContextValue.m


(***************************************************************************)
(* Handlers.  A call reports handled or not, with or without a failure,    *)
(* and may use one ParsingContext accessor, naming itself where a node is  *)
(* asked for.                                                              *)
(***************************************************************************)
Outcomes == {"handled", "declined", "handledErr", "declinedErr"}
Applied(out) == out \in {"handled", "handledErr"}
Failure(out, h) == IF out \in {"handledErr", "declinedErr"} THEN ErrHandler(h) ELSE NoErr

Effects ==
    {"none", "SetOnlyApplyThisNode", "ResetOnlyApplyThisNode",
     "SetOnlyApplyThisNodeNextLevel", "ResetOnlyAppliedThisNodeNextLevel"}

\* What a handler's accessor call does to the count of uses.
UsesAfter(eff) == IF eff = "SetOnlyApplyThisNodeNextLevel" THEN 0 ELSE uses

HandlerEffect(p, h, eff) ==
    CASE eff = "SetOnlyApplyThisNode" -> SetOnlyApplyThisNode(p, h)
      [] eff = "ResetOnlyApplyThisNode" -> ResetOnlyApplyThisNode(p)
      [] eff = "SetOnlyApplyThisNodeNextLevel" -> SetOnlyApplyThisNodeNextLevel(p, h)
      [] eff = "ResetOnlyAppliedThisNodeNextLevel" -> ResetOnlyAppliedThisNodeNextLevel(p)
      [] OTHER -> p

(***************************************************************************)
(* The call stack.  An apply frame ranges over one object; a doApply frame *)
(* dispatches one key/value pair.                                          *)
(*   apply:   st is start (before the override check), range (in the loop) *)
(*            iter holds the keys the range has yielded to doApply, disp   *)
(*            (history) the keys handed to doApply in order, hij (history) *)
(*            the OnlyApplyThisNode found on entry.                        *)
(*   doApply: st is start, call (inside enter/apply/exitFirstNode, op      *)
(*            saying which, idx the handler tried next), recur (inside the *)
(*            nested apply), ret (about to return); i is the array element *)
(*            in hand; enters and exits (history) count the calls of       *)
(*            enterFirstNode and exitFirstNode that returned; sub and      *)
(*            subHij (history) tell of the nested apply that returned      *)
(*            last: the keys it handed to doApply, and whether it gave     *)
(*            its object to the whole-document override instead.           *)
(***************************************************************************)
ApplyFrame(ns, m) ==
    [fn |-> "apply", nodes |-> ns, input |-> m, st |-> "start",
     iter |-> {}, disp |-> <<>>, hij |-> Nil]

DoApplyFrame(ns, k, v) ==
    [fn |-> "doApply", nodes |-> ns, k |-> k, v |-> v, list |-> <<>>,
     armed |-> FALSE, st |-> "start", op |-> "", idx |-> 0, i |-> 0,
     enters |-> 0, exits |-> 0, sub |-> <<>>, subHij |-> FALSE]

Call(f, op) == [f EXCEPT !.st = "call", !.op = op, !.idx = 1]

\* doApply bracketing an array as a whole: one enter before the first
\* element, one exit after the last.
doApplyWholeArray(f, ev) ==
    CASE ev = "begin" ->
            IF IsMap(f.v) THEN Call(f, "enter")
            ELSE IF IsArr(f.v)
            THEN IF Len(f.v.a) = 0 THEN [f EXCEPT !.st = "ret"]
                 ELSE Call([f EXCEPT !.i = 1], "enter")
            ELSE Call(f, "apply")
      [] ev = "entered" ->
            LET g == [f EXCEPT !.enters = @ + 1]
            IN  IF IsMap(f.v) THEN [g EXCEPT !.st = "recur"]
                ELSE IF IsMap(f.v.a[f.i]) THEN [g EXCEPT !.st = "recur"]
                ELSE Call(g, "apply")
      [] ev \in {"recurred", "applied"} ->
            IF IsArr(f.v) /\ f.i < Len(f.v.a)
            THEN LET g == [f EXCEPT !.i = @ + 1]
                 IN  IF IsMap(g.v.a[g.i]) THEN [g EXCEPT !.st = "recur"]
                     ELSE Call(g, "apply")
            ELSE IF IsArr(f.v) \/ ev = "recurred" THEN Call(f, "exit")
            ELSE [f EXCEPT !.st = "ret"]
      [] OTHER -> [f EXCEPT !.exits = @ + 1, !.st = "ret"]

\* doApply leaving a nested object without exitFirstNode.
doApplyNoExit(f, ev) ==
    CASE ev = "begin" ->
            IF IsMap(f.v) THEN Call(f, "enter")
            ELSE IF IsArr(f.v)
            THEN IF Len(f.v.a) = 0 THEN [f EXCEPT !.st = "ret"]
                 ELSE Call([f EXCEPT !.i = 1], "enter")
            ELSE Call(f, "apply")
      [] ev = "entered" ->
            LET g == [f EXCEPT !.enters = @ + 1]
            IN  IF IsMap(f.v) THEN [g EXCEPT !.st = "recur"]
                ELSE IF IsMap(f.v.a[f.i]) THEN [g EXCEPT !.st = "recur"]
                ELSE Call(g, "apply")
      [] ev = "recurred" ->
            IF IsMap(f.v) THEN [f EXCEPT !.st = "ret"] ELSE Call(f, "exit")
      [] ev = "applied" ->
            IF IsArr(f.v) THEN Call(f, "exit") ELSE [f EXCEPT !.st = "ret"]
      [] OTHER ->
            LET g == [f EXCEPT !.exits = @ + 1]
            IN  IF IsArr(f.v) /\ f.i < Len(f.v.a)
                THEN Call([g EXCEPT !.i = @ + 1], "enter")
                ELSE [g EXCEPT !.st = "ret"]

\* Lines 190-220: what doApply does next, after ev: its start ("begin"), or
\* the return without error of enterFirstNode ("entered"), of the nested
\* apply ("recurred"), of applyFirstNode ("applied"), of exitFirstNode
\* ("exited").
doApplyNext(f, ev) ==
    CASE ev = "begin" ->
            IF IsMap(f.v) THEN Call(f, "enter")
            ELSE IF IsArr(f.v)
            THEN IF Len(f.v.a) = 0 THEN [f EXCEPT !.st = "ret"]
                 ELSE Call([f EXCEPT !.i = 1], "enter")
            ELSE Call(f, "apply")
      [] ev = "entered" ->
            LET g == [f EXCEPT !.enters = @ + 1]
            IN  IF IsMap(f.v) THEN [g EXCEPT !.st = "recur"]
                ELSE IF IsMap(f.v.a[f.i]) THEN [g EXCEPT !.st = "recur"]
                ELSE Call(g, "apply")
      [] ev = "recurred" -> Call(f, "exit")
      [] ev = "applied" ->
            IF IsArr(f.v) THEN Call(f, "exit") ELSE [f EXCEPT !.st = "ret"]
      [] OTHER ->
            LET g == [f EXCEPT !.exits = @ + 1]
            IN  IF IsArr(f.v) /\ f.i < Len(f.v.a)
                THEN Call([g EXCEPT !.i = @ + 1], "enter")
                ELSE [g EXCEPT !.st = "ret"]

\* The value applyFirstNode is given, and the object apply recurs into.
ApplyValue(f) == IF IsArr(f.v) THEN f.v.a[f.i] ELSE f.v
RecurValue(f) == IF IsArr(f.v) THEN f.v.a[f.i].m ELSE f.v.m

\* The frames a doApply frame stands for: with the nested apply's frame on
\* top once doApply recurs (lines 193 and 206).
WithRecursion(f) ==
    IF f.st = "recur" THEN <<ApplyFrame(f.nodes, RecurValue(f)), f>> ELSE <<f>>

Done(op) == CASE op = "enter" -> "entered" [] op = "apply" -> "applied" [] OTHER -> "exited"

\* The deferred clearFn of every doApply on the stack runs as an error
\* travels up to ParseVocabulary.
Unwind(p, fs) ==
    IF \E j \in DOMAIN fs : fs[j].fn = "doApply" /\ fs[j].armed
    THEN clearFn(p, TRUE) ELSE p

\* Lines 136-137: apply returned e to ParseVocabulary, which returns.
FailWith(e, p) ==
    /\ pc' = "done"
    /\ err' = e
    /\ frames' = <<>>
    /\ ctx' = Unwind(p, frames)
    /\ UNCHANGED <<input, registry, rs, nodes, regCalls, vocabulary>>

\* apply returns nil to its caller: a doApply, or ParseVocabulary.
ApplyReturned(p) ==
    LET rest == Tail(frames)
    IN  /\ ctx' = p
        /\ IF rest = <<>>
           THEN /\ pc' = "done"
                /\ err' = NoErr
                /\ frames' = <<>>
           ELSE /\ frames' = <<[doApplyNext(Head(rest), "recurred") EXCEPT
                                    !.sub = Head(frames).disp,
                                    !.subHij = (Head(frames).st = "start")]>> \o Tail(rest)
                /\ UNCHANGED <<pc, err>>
        /\ UNCHANGED <<input, registry, rs, nodes, regCalls, vocabulary>>

\* The built-in nodes appended after the resolved ones.
TraversalNodesLast(ns) == ns \o jsonLDNodes

\* Lines 128-136: the rest of ParseVocabulary up to the call of apply.
TraversalNodes(ns) == jsonLDNodes \o ns

ParseVocabularyApply ==
    /\ pc = "context"
    /\ ContextResolved
    /\ pc' = "apply"
    /\ vocabulary' = "ParsedVocabulary"
    /\ ctx' = NewParsingContext
    /\ nodes' = TraversalNodes(nodes)
    /\ frames' = <<ApplyFrame(nodes', input)>>
    /\ UNCHANGED <<input, registry, rs, regCalls, err, cur, claimed, builtinClaimed, uses>>
    /\ UNCHANGED vocVars

Top == Head(frames)

InApply == pc = "apply" /\ frames # <<>> /\ Top.fn = "apply"
InDoApply == pc = "apply" /\ frames # <<>> /\ Top.fn = "doApply"

\* Lines 145-152: the whole-document override.
ApplyRequestedNode(applied, e) ==
    IF ~applied THEN ErrRequestedNode ELSE e

\* apply without the test of OnlyApplyThisNode.
HijackedNever(p) == FALSE

\* Line 145.
Hijacked(p) == p.OnlyApplyThisNode # Nil

ApplyHijacked ==
    /\ InApply
    /\ Top.st = "start"
    /\ Hijacked(ctx)
    /\ \E out \in Outcomes, eff \in Effects :
        LET h == ctx.OnlyApplyThisNode
            p == HandlerEffect(ctx, h, eff)
            e == ApplyRequestedNode(Applied(out), Failure(out, h))
        IN  /\ cur' = [op |-> "override", key |-> "", list |-> <<h>>, armed |-> FALSE,
                       calls |-> <<[h |-> h, out |-> out, whole |-> h]>>]
            /\ uses' = UsesAfter(eff)
            /\ IF e = NoErr THEN ApplyReturned(p) ELSE FailWith(e, p)
    /\ UNCHANGED <<claimed, builtinClaimed>>
    /\ UNCHANGED vocVars

\* The pre-pass looking for "type" before "@type".
TypeKeyAsFirst(m) ==
    IF JSON_LD_TYPE_AS \in DOMAIN m THEN JSON_LD_TYPE_AS
    ELSE IF JSON_LD_TYPE \in DOMAIN m THEN JSON_LD_TYPE
    ELSE Nil

\* Lines 154-162: the key of the type pre-pass, Nil when there is none.
TypeKey(m) ==
    IF JSON_LD_TYPE \in DOMAIN m THEN JSON_LD_TYPE
    ELSE IF JSON_LD_TYPE_AS \in DOMAIN m THEN JSON_LD_TYPE_AS
    ELSE Nil

\* Lines 166-172: the keys the loop passes over.
Skipped(k) == k \in {JSON_LD_CONTEXT, JSON_LD_TYPE, JSON_LD_TYPE_AS}

ApplyType ==
    /\ InApply
    /\ Top.st = "start"
    /\ ~Hijacked(ctx)
    /\ LET k == TypeKey(Top.input)
           f == [Top EXCEPT !.st = "range", !.hij = ctx.OnlyApplyThisNode]
       IN  frames' =
             IF k = Nil THEN <<f>> \o Tail(frames)
             ELSE <<DoApplyFrame(Top.nodes, k, Top.input[k]),
                    [f EXCEPT !.disp = Append(@, k)]>> \o Tail(frames)
    /\ UNCHANGED <<input, registry, pc, rs, nodes, regCalls, ctx, vocabulary, err,
                   cur, claimed, builtinClaimed, uses>>
    /\ UNCHANGED vocVars

\* Lines 164-176: one iteration of the range over the object, in any order.
Remaining(f) == {k \in DOMAIN f.input \ f.iter : ~Skipped(k)}

ApplyRange ==
    /\ InApply
    /\ Top.st = "range"
    /\ \E k \in Remaining(Top) :
        frames' = <<DoApplyFrame(Top.nodes, k, Top.input[k]),
                    [Top EXCEPT !.iter = @ \cup {k}, !.disp = Append(@, k)]>>
                  \o Tail(frames)
    /\ UNCHANGED <<input, registry, pc, rs, nodes, regCalls, ctx, vocabulary, err,
                   cur, claimed, builtinClaimed, uses>>
    /\ UNCHANGED vocVars

\* Line 177.
ApplyReturn ==
    /\ InApply
    /\ Top.st = "range"
    /\ Remaining(Top) = {}
    /\ ApplyReturned(ctx)
    /\ UNCHANGED <<cur, claimed, builtinClaimed, uses>>
    /\ UNCHANGED vocVars

\* Lines 186-188, and the branch doApply takes on the value's shape.
DoApplyStart ==
    /\ InDoApply
    /\ Top.st = "start"
    /\ LET g == GetNextNodes(ctx, Top.nodes)
           f == doApplyNext([Top EXCEPT !.list = g.r, !.armed = g.armed], "begin")
       IN  /\ ctx' = g.p
           /\ frames' = WithRecursion(f) \o Tail(frames)
           /\ uses' = IF g.armed /\ uses < MaxUses THEN uses + 1 ELSE uses
    /\ UNCHANGED <<input, registry, pc, rs, nodes, regCalls, vocabulary, err,
                   cur, claimed, builtinClaimed>>
    /\ UNCHANGED vocVars

\* enter/exit/applyFirstNode returning nil after the loop.
NoNodeApplicableNil(op, key) == NoErr

\* Lines 232, 244, 256: what enter/exit/applyFirstNode return when the loop
\* ends with no handler having reported handled.
NoNodeApplicable(op, key) == [kind |-> "no RDFNode applicable", op |-> op, key |-> key]

\* enter/exit/applyFirstNode returned e to doApply, with the context at p.
FirstNodeReturned(e, p) ==
    IF e = NoErr
    THEN /\ frames' = WithRecursion(doApplyNext(Top, Done(Top.op))) \o Tail(frames)
         /\ ctx' = p
         /\ UNCHANGED <<input, registry, pc, rs, nodes, regCalls, vocabulary, err>>
    ELSE FailWith(e, p)

\* A loop that goes on after a handler reported handled.
LoopReturnsOnFailure(applied, e) == e # NoErr

\* Lines 225-231, 237-243, 249-255: the loop's next handler is called.
\* stop says whether the loop returns after this handler.
LoopReturns(applied, e) == applied \/ e # NoErr

HandlerCall ==
    /\ InDoApply
    /\ Top.st = "call"
    /\ Top.idx <= Len(Top.list)
    /\ \E out \in Outcomes, eff \in Effects :
        LET h == Top.list[Top.idx]
            p == HandlerEffect(ctx, h, eff)
            e == Failure(out, h)
            entry == [h |-> h, out |-> out, whole |-> ctx.OnlyApplyThisNode]
        IN  /\ cur' = [op |-> Top.op, key |-> Top.k, list |-> Top.list,
                       armed |-> Top.armed,
                       calls |-> IF Top.idx = 1 THEN <<entry>> ELSE Append(cur.calls, entry)]
            /\ claimed' = IF Applied(out) THEN claimed \cup {Top.k} ELSE claimed
            /\ builtinClaimed' =
                 IF Applied(out) /\ h \in BuiltinHandlers
                 THEN builtinClaimed \cup {Top.k} ELSE builtinClaimed
            /\ uses' = UsesAfter(eff)
            /\ IF LoopReturns(Applied(out), e)
               THEN FirstNodeReturned(e, p)
               ELSE /\ frames' = <<[Top EXCEPT !.idx = @ + 1]>> \o Tail(frames)
                    /\ ctx' = p
                    /\ UNCHANGED <<input, registry, pc, rs, nodes, regCalls,
                                   vocabulary, err>>
    /\ UNCHANGED vocVars

FirstNodeExhausted ==
    /\ InDoApply
    /\ Top.st = "call"
    /\ Top.idx > Len(Top.list)
    /\ FirstNodeReturned(NoNodeApplicable(Top.op, Top.k), ctx)
    /\ UNCHANGED <<cur, claimed, builtinClaimed, uses>>
    /\ UNCHANGED vocVars

\* Line 220 with the deferred clearFn of line 188: doApply returns nil to
\* the apply that called it.
DoApplyReturn ==
    /\ InDoApply
    /\ Top.st = "ret"
    /\ ctx' = clearFn(ctx, Top.armed)
    /\ frames' = Tail(frames)
    /\ UNCHANGED <<input, registry, pc, rs, nodes, regCalls, vocabulary, err,
                   cur, claimed, builtinClaimed, uses>>
    /\ UNCHANGED vocVars

(***************************************************************************)
(* The parser's specification.                                             *)
(***************************************************************************)
NoCall == [op |-> "", key |-> "", list |-> <<>>, armed |-> FALSE, calls |-> <<>>]

NoInsert == [op |-> "", name |-> "", a |-> "", before |-> EmptyVocabulary, err |-> NoErr]

\* Of the entity as it was before the call, kind and Name are kept, and
\* whether it had a URI.
Before(e) == [kind |-> e.kind, Name |-> e.Name, hadURI |-> e.URI # NilURL]

NoSetURI == [op |-> "", s |-> <<>>, before |-> Before(NewEntity("VocabularyType")), err |-> NoErr]

NoScopeOp == [op |-> "", before |-> NewParsingContext, panic |-> FALSE]

VocInit ==
    /\ voc = EmptyVocabulary
    /\ vocRet = NoInsert
    /\ ent = NewEntity("VocabularyType")
    /\ uriRet = NoSetURI
    /\ scopeRet = NoScopeOp

Init ==
    /\ input \in Documents
    /\ registry \in Registries
    /\ registry # DefaultRegistry => ContextValue = Num
    /\ pc = "start"
    /\ rs = [i |-> 1, seen |-> {}, done |-> FALSE]
    /\ nodes = <<>>
    /\ regCalls = <<>>
    /\ ctx = NewParsingContext
    /\ frames = <<>>
    /\ vocabulary = Nil
    /\ err = NoErr
    /\ cur = NoCall
    /\ claimed = {}
    /\ builtinClaimed = {}
    /\ uses = 0
    /\ VocInit

Next ==
    \/ ParseJSONLDContext
    \/ ContextAlias
    \/ ContextElement
    \/ ContextSingle
    \/ ParseVocabularyApply
    \/ ApplyHijacked
    \/ ApplyType
    \/ ApplyRange
    \/ ApplyReturn
    \/ DoApplyStart
    \/ HandlerCall
    \/ FirstNodeExhausted
    \/ DoApplyReturn

Spec == Init /\ [][Next]_vars


(***************************************************************************)
(* The Vocabulary insertion methods on their own: any sequence of          *)
(* SetType, SetProperty and SetValue on one Vocabulary.                    *)
(***************************************************************************)
Names == {"", "Note"}
Entities == {"e1", "e2"}

Inserted(op, name, a, got) ==
    /\ voc' = got.v
    /\ vocRet' = [op |-> op, name |-> name, a |-> a, before |-> voc, err |-> got.err]
    /\ UNCHANGED parseVars
    /\ UNCHANGED <<ent, uriRet, scopeRet>>

InsertType == \E name \in Names, a \in Entities :
    Inserted("SetType", name, a, SetType(voc, name, a))

InsertProperty == \E name \in Names, a \in Entities :
    Inserted("SetProperty", name, a, SetProperty(voc, name, a))

InsertValue == \E name \in Names, a \in Entities :
    Inserted("SetValue", name, a, SetValue(voc, name, a))

\* No parse is under way.
NoParse ==
    /\ input = ContextBody
    /\ registry = DefaultRegistry
    /\ pc = "start"
    /\ rs = [i |-> 1, seen |-> {}, done |-> FALSE]
    /\ nodes = <<>>
    /\ regCalls = <<>>
    /\ ctx = NewParsingContext
    /\ frames = <<>>
    /\ vocabulary = Nil
    /\ err = NoErr
    /\ cur = NoCall
    /\ claimed = {}
    /\ builtinClaimed = {}
    /\ uses = 0

VocabularyInit ==
    /\ NoParse
    /\ VocInit

VocabularyNext == InsertType \/ InsertProperty \/ InsertValue

VocabularySpec == VocabularyInit /\ [][VocabularyNext]_vars

(***************************************************************************)
(* SetURI on its own: any sequence of SetURI calls on one entity of each   *)
(* kind.                                                                   *)
(***************************************************************************)
URISet(got, s) ==
    /\ ent' = got.v
    /\ uriRet' = [op |-> "SetURI", s |-> s, before |-> Before(ent), err |-> got.err]
    /\ UNCHANGED parseVars
    /\ UNCHANGED <<voc, vocRet, scopeRet>>

ValueSetURI ==
    /\ ent.kind = "VocabularyValue"
    /\ \E s \in URIStrings : URISet(VocabularyValueSetURI(ent, s), s)

TypeSetURI ==
    /\ ent.kind = "VocabularyType"
    /\ \E s \in URIStrings : URISet(VocabularyTypeSetURI(ent, s), s)

PropertySetURI ==
    /\ ent.kind = "VocabularyProperty"
    /\ \E s \in URIStrings : URISet(VocabularyPropertySetURI(ent, s), s)

ExampleSetURI ==
    /\ ent.kind = "VocabularyExample"
    /\ \E s \in URIStrings : URISet(VocabularyExampleSetURI(ent, s), s)

ReferenceSetURI ==
    /\ ent.kind = "VocabularyReference"
    /\ \E s \in URIStrings : URISet(VocabularyReferenceSetURI(ent, s), s)

URIInit ==
    /\ NoParse
    /\ voc = EmptyVocabulary
    /\ vocRet = NoInsert
    /\ ent \in {NewEntity(kind) : kind \in EntityKinds}
    /\ uriRet = NoSetURI
    /\ scopeRet = NoScopeOp

URINext ==
    \/ ValueSetURI
    \/ TypeSetURI
    \/ PropertySetURI
    \/ ExampleSetURI
    \/ ReferenceSetURI

URISpec == URIInit /\ [][URINext]_vars

(***************************************************************************)
(* The scope stack on its own: any sequence of Push, Pop and Reset on one  *)
(* ParsingContext, between which handlers assign Current and Name.  A Pop  *)
(* on an empty Stack indexes out of range: the run panics and ends.        *)
(***************************************************************************)
Named(kind, name) == [NewEntity(kind) EXCEPT !.Name = name]

ScopeEntities ==
    {Nameless, Named("VocabularyType", "x"), Named("VocabularyProperty", "y")}

ScopeNames == {"", "z"}

ScopeOp(op, p, panic) ==
    /\ ~scopeRet.panic
    /\ ctx' = p
    /\ scopeRet' = [op |-> op, before |-> ctx, panic |-> panic]
    /\ UNCHANGED <<input, registry, pc, rs, nodes, regCalls, frames, vocabulary,
                   err, cur, claimed, builtinClaimed, uses>>
    /\ UNCHANGED <<voc, vocRet, ent, uriRet>>

ScopePush ==
    /\ Len(ctx.Stack) < MaxStack
    /\ ScopeOp("Push", Push(ctx), FALSE)

ScopePop ==
    IF ctx.Stack = <<>>
    THEN ScopeOp("Pop", ctx, TRUE)
    ELSE ScopeOp("Pop", Pop(ctx), FALSE)

ScopeReset == ScopeOp("Reset", Reset(ctx), FALSE)

ScopeSetCurrent ==
    \E e \in ScopeEntities : ScopeOp("Current", [ctx EXCEPT !.Current = e], FALSE)

ScopeSetName ==
    \E n \in ScopeNames : ScopeOp("Name", [ctx EXCEPT !.Name = n], FALSE)

ScopeInit ==
    /\ NoParse
    /\ VocInit

ScopeNext ==
    \/ ScopePush
    \/ ScopePop
    \/ ScopeReset
    \/ ScopeSetCurrent
    \/ ScopeSetName

ScopeSpec == ScopeInit /\ [][ScopeNext]_vars


(***************************************************************************)
(* Properties.                                                             *)
(***************************************************************************)
ApplyFrames == {j \in DOMAIN frames : frames[j].fn = "apply"}
DoApplyFrames == {j \in DOMAIN frames : frames[j].fn = "doApply"}
Last(q) == q[Len(q)]

\* The latest enter/apply/exitFirstNode call was made with the full list.
FullDispatch == cur.op \in {"enter", "apply", "exit"} /\ ~cur.armed
Succeeded == pc = "done" /\ err = NoErr
Failed == pc = "done" /\ err # NoErr

\* C1: in every object apply ranges over that holds "@type", "@type" is
\* the first key handed to doApply, and whatever doApply is running for
\* that object is the one of the key handed over last: no other key is
\* dispatched before the dispatch of "@type" has returned.
TypePrePassFirst ==
    \A j \in ApplyFrames :
        LET f == frames[j]
        IN  (JSON_LD_TYPE \in DOMAIN f.input /\ f.st = "range") =>
              /\ f.disp # <<>>
              /\ f.disp[1] = JSON_LD_TYPE
              /\ (j > 1 /\ frames[j - 1].fn = "doApply") =>
                    frames[j - 1].k = Last(f.disp)
              /\ Len(f.disp) > 1 => (j = 1 \/ Last(f.disp) # JSON_LD_TYPE)

\* C1 witness: an object with "@type" whose other key is being dispatched.
TypePrePassWitness ==
    \E j \in ApplyFrames :
        /\ JSON_LD_TYPE \in DOMAIN frames[j].input
        /\ Len(frames[j].disp) >= 2
        /\ j > 1
        /\ frames[j - 1].st = "call"

\* C2: a doApply of an array value that has not failed has called
\* enterFirstNode and exitFirstNode once per element it is done with, in
\* the order enter, then the nested apply (an object) or applyFirstNode
\* (anything else), then exit; when it returns, each was called Len times.
ArrayBracketing ==
    \A j \in DoApplyFrames :
        LET f == frames[j]
        IN  (IsArr(f.v) /\ f.st # "start") =>
              /\ f.st = "ret" => f.enters = Len(f.v.a) /\ f.exits = Len(f.v.a)
              /\ (f.st = "call" /\ f.op = "enter") =>
                    f.enters = f.i - 1 /\ f.exits = f.i - 1
              /\ (f.st = "call" /\ f.op = "apply") =>
                    f.enters = f.i /\ f.exits = f.i - 1 /\ ~IsMap(f.v.a[f.i])
              /\ f.st = "recur" =>
                    f.enters = f.i /\ f.exits = f.i - 1 /\ IsMap(f.v.a[f.i])
              /\ (f.st = "call" /\ f.op = "exit") =>
                    f.enters = f.i /\ f.exits = f.i - 1

\* C2 witness: doApply returns from an array of two or more elements.
ArrayBracketingWitness ==
    \E j \in DoApplyFrames :
        /\ IsArr(frames[j].v)
        /\ Len(frames[j].v.a) >= 2
        /\ frames[j].st = "ret"
        /\ frames[j].exits >= 2

\* A doApply that has called GetNextNodes and no handler yet.
JustStarted(f) ==
    /\ f.st = "call"
    /\ f.idx = 1
    /\ f.enters = 0
    /\ f.op = IF IsMap(f.v) \/ IsArr(f.v) THEN "enter" ELSE "apply"

RECURSIVE KeysOf(_)
KeysOf(v) ==
    IF IsMap(v)
    THEN DOMAIN v.m \cup UNION {KeysOf(v.m[k]) : k \in DOMAIN v.m}
    ELSE IF IsArr(v) THEN UNION {KeysOf(v.a[i]) : i \in DOMAIN v.a}
    ELSE {}

\* Every key of the document, at any level, but "@context" and what is
\* under the top-level "@context".
DocumentKeys(doc) ==
    KeysOf(Obj([k \in DOMAIN doc \ {JSON_LD_CONTEXT} |-> doc[k]])) \ {JSON_LD_CONTEXT}

\* C4 as stated: when ParseVocabulary returns without error, every key of
\* the document was reported handled by some handler.
EveryKeyClaimed == Succeeded => DocumentKeys(input) \subseteq claimed

\* The latest enter/apply/exitFirstNode call tried its whole list and no
\* handler reported handled or failed.
Exhausted ==
    /\ cur.op \in {"enter", "apply", "exit"}
    /\ Len(cur.calls) = Len(cur.list)
    /\ \A c \in DOMAIN cur.calls : cur.calls[c].out = "declined"

\* C4 amended: an enter/apply/exitFirstNode call in which no handler of
\* the list in use claims the key makes ParseVocabulary fail with the error
\* naming that key, so that after a parse without error every such call
\* the engine made was claimed; keys the engine makes no such call for
\* need no claimant.
EveryDispatchClaimed ==
    /\ Exhausted =>
        \/ /\ InDoApply
           /\ Top.st = "call"
           /\ Top.idx > Len(Top.list)
           /\ Top.k = cur.key
        \/ /\ Failed
           /\ err = [kind |-> "no RDFNode applicable", op |-> cur.op, key |-> cur.key]
    /\ Succeeded /\ cur.op \in {"enter", "apply", "exit"} => Applied(Last(cur.calls).out)

\* C4 witness: a parse failed on a key no handler of the list claimed.
EveryDispatchClaimedWitness ==
    /\ Failed
    /\ err.kind = "no RDFNode applicable"
    /\ Exhausted
    /\ Len(cur.calls) >= 2

\* C5 as stated: a parse that returns an error returns no vocabulary.
NoPartialOutput == Failed => vocabulary = Nil

\* The orders a range over a map may take.
Orders(S) == {o \in [1..Cardinality(S) -> S] : Range(o) = S}

RECURSIVE AliasNodes(_, _, _)
AliasNodes(m, o, n) ==
    IF n = 0 THEN <<>>
    ELSE AliasNodes(m, o, n - 1) \o AliasLookup(registry, o[n], m[o[n]]).nodes

\* The handler lists one element of an array @context may resolve to.
ElementNodes(el) ==
    IF IsMap(el)
    THEN {AliasNodes(el.m, o, Len(o)) : o \in Orders(DOMAIN el.m)}
    ELSE {getFor(registry, el.s).nodes}

RECURSIVE ArrayNodes(_, _)
ArrayNodes(a, n) ==
    IF n = 0 THEN {<<>>}
    ELSE {x \o y : x \in ArrayNodes(a, n - 1), y \in ElementNodes(a[n])}

ContextAB == Arr(<<Str("A"), Str("B")>>)

\* C6: once traversal has begun under an array @context, the handler list
\* is the built-in handlers followed by each element's handlers in the
\* order of the elements; under ["A", "B"] it is J, A, B, and in a call
\* made with the full list B's handler is called only after A's handler
\* declined, so never for a key A's handler claims.
ContextOrder ==
    (vocabulary # Nil /\ IsArr(ContextValue)) =>
        /\ nodes \in {jsonLDNodes \o x :
                        x \in ArrayNodes(ContextValue.a, Len(ContextValue.a))}
        /\ ContextValue = ContextAB =>
              /\ nodes = <<"J", "A", "B">>
              /\ FullDispatch =>
                   \A c \in DOMAIN cur.calls :
                       cur.calls[c].h = "B" =>
                           \E b \in 1..(c - 1) :
                               /\ cur.calls[b].h = "A"
                               /\ cur.calls[b].out = "declined"

\* C6 witness: under ["A", "B"], A's handler claimed the key and the call
\* ended there.
ContextOrderWitness ==
    /\ ContextValue = ContextAB
    /\ FullDispatch
    /\ Len(cur.calls) = 2
    /\ cur.calls[2].h = "A"
    /\ cur.calls[2].out = "handled"
    /\ pc = "apply"
    /\ Top.st # "call"

\* C7 as stated: for a key a built-in handler claims, no ontology handler
\* is called in an enter/apply/exitFirstNode call before a built-in
\* handler was tried in it.
BuiltinNeverShadowed ==
    (cur.op \in {"enter", "apply", "exit"} /\ cur.key \in builtinClaimed) =>
        \A c \in DOMAIN cur.calls :
            cur.calls[c].h \in OntologyHandlers =>
                \E b \in 1..(c - 1) : cur.calls[b].h \in BuiltinHandlers

\* C7 amended: in an enter/apply/exitFirstNode call made with the full
\* list, an ontology handler is called only after every built-in handler
\* was called and declined; a call made with the next-level override, or
\* the whole-document override, calls the override handler alone.
BuiltinFirstInFullDispatch ==
    /\ FullDispatch =>
        \A c \in DOMAIN cur.calls :
            cur.calls[c].h \in OntologyHandlers =>
                \A h \in BuiltinHandlers :
                    \E b \in 1..(c - 1) :
                        cur.calls[b].h = h /\ cur.calls[b].out = "declined"
    /\ (cur.armed \/ cur.op = "override") => Len(cur.calls) <= 1 /\ Len(cur.list) = 1

\* C7 witness: an ontology handler is called for a key the built-in
\* handler has claimed before, after the built-in handler declined.
BuiltinFirstWitness ==
    /\ FullDispatch
    /\ cur.key \in builtinClaimed
    /\ Len(cur.calls) >= 2
    /\ cur.calls[1].h \in BuiltinHandlers
    /\ cur.calls[2].h \in OntologyHandlers

\* C8 as stated: while OnlyApplyThisNode is set, no handler of a list is
\* called through enter/apply/exitFirstNode.
OverrideStopsDispatch ==
    cur.op \in {"enter", "apply", "exit"} =>
        \A c \in DOMAIN cur.calls : cur.calls[c].whole = Nil

\* C8 amended: every apply that begins while OnlyApplyThisNode is set hands
\* its whole object to the override handler's Apply with an empty key and
\* dispatches none of the object's keys; dispatch already under way (the
\* other keys of an object whose apply began before, the enter and exit
\* around a nested object) still uses enter/apply/exitFirstNode.
OverrideHijacksApply ==
    /\ \A j \in ApplyFrames :
        frames[j].st = "range" \/ frames[j].disp # <<>> => frames[j].hij = Nil
    /\ cur.op = "override" =>
        /\ cur.key = ""
        /\ Len(cur.calls) = 1
        /\ cur.calls[1].h = cur.calls[1].whole
        /\ cur.list = <<cur.calls[1].whole>>

\* C8 witness: the override handler was given an object and traversal
\* went on after it.
OverrideHijacksApplyWitness ==
    /\ cur.op = "override"
    /\ cur.calls[1].out = "handled"
    /\ pc = "apply"
    /\ ctx.OnlyApplyThisNode # Nil

MapOf(v, op) ==
    CASE op = "SetType" -> v.Types
      [] op = "SetProperty" -> v.Properties
      [] OTHER -> v.Values

\* C9: an insertion under a name already in that mapping returns an error
\* and leaves the Vocabulary as it was; one under a new name returns no
\* error and adds exactly that entry; the other two mappings are untouched.
NameUniqueness ==
    vocRet.op # "" =>
        LET old == MapOf(vocRet.before, vocRet.op)
            new == MapOf(voc, vocRet.op)
        IN  /\ vocRet.name \in DOMAIN old =>
                vocRet.err # NoErr /\ voc = vocRet.before
            /\ vocRet.name \notin DOMAIN old =>
                /\ vocRet.err = NoErr
                /\ DOMAIN new = DOMAIN old \cup {vocRet.name}
                /\ new[vocRet.name] = vocRet.a
                /\ \A n \in DOMAIN old : new[n] = old[n]
            /\ \A o \in {"SetType", "SetProperty", "SetValue"} \ {vocRet.op} :
                MapOf(voc, o) = MapOf(vocRet.before, o)

\* C9 witness: a second SetType under a name refused, the first entry kept.
NameUniquenessWitness ==
    /\ vocRet.op = "SetType"
    /\ vocRet.err # NoErr
    /\ voc.Types[vocRet.name] # vocRet.a
    /\ DOMAIN voc.Properties # {}

\* C10: without "@context" ParseVocabulary fails with no registry lookup
\* and no handler call; and no handler is called, nor any frame of apply
\* pushed, before parseJSONLDContext has returned without error.
MissingContextStops ==
    /\ ~(JSON_LD_CONTEXT \in DOMAIN input) =>
        /\ regCalls = <<>>
        /\ cur = NoCall
        /\ frames = <<>>
        /\ pc \in {"start", "done"}
        /\ pc = "done" => err = ErrNoContext /\ vocabulary = Nil
    /\ (cur # NoCall \/ frames # <<>>) =>
        /\ JSON_LD_CONTEXT \in DOMAIN input
        /\ ContextResolved
        /\ vocabulary # Nil

\* C10 witness: a document without "@context" has been refused.
MissingContextWitness ==
    /\ ~(JSON_LD_CONTEXT \in DOMAIN input)
    /\ pc = "done"
    /\ err = ErrNoContext

\* A value that is neither a string nor a mapping.
NoNameNorObject(v) == ~IsStr(v) /\ ~IsMap(v)

\* An @context value of a shape parseJSONLDContext has no branch for.
Malformed(c) ==
    \/ ~IsStr(c) /\ ~IsArr(c) /\ ~IsMap(c)
    \/ /\ IsMap(c)
       /\ \E k \in DOMAIN c.m : NoNameNorObject(c.m[k])
    \/ /\ IsArr(c)
       /\ \E i \in DOMAIN c.a :
            \/ NoNameNorObject(c.a[i])
            \/ /\ IsMap(c.a[i])
               /\ \E k \in DOMAIN c.a[i].m : NoNameNorObject(c.a[i].m[k])

\* C11 as stated: under a malformed "@context" no traversal takes place,
\* whatever the registry answers: no frame of apply is pushed, no handler
\* is called, no vocabulary is made, and ParseVocabulary returns an error.
MalformedContextFails ==
    (HasContext(input) /\ Malformed(ContextValue)) =>
        /\ frames = <<>>
        /\ cur = NoCall
        /\ vocabulary = Nil
        /\ pc \in {"start", "context", "done"}
        /\ pc = "done" => err # NoErr

\* What the registry answers to a recorded lookup.
Answer(c) ==
    CASE c.fn = "getFor" -> getFor(registry, c.arg.s)
      [] c.fn = "getAliased" -> getAliased(registry, c.alias, c.arg.s)
      [] OTHER -> getAliasedObject(registry, c.alias, c.arg.m)

RECURSIVE Answers(_, _)
Answers(calls, n) ==
    IF n = 0 THEN <<>> ELSE Answers(calls, n - 1) \o Answer(calls[n]).nodes

\* The lookups the pairs of a map ask for, taken in the order o.
RECURSIVE PairCalls(_, _, _)
PairCalls(m, o, n) ==
    IF n = 0 THEN <<>> ELSE PairCalls(m, o, n - 1) \o AliasCall(o[n], m[o[n]])

MapCalls(m) == {PairCalls(m, o, Len(o)) : o \in Orders(DOMAIN m)}

ElementCalls(el) ==
    IF IsMap(el) THEN MapCalls(el.m)
    ELSE IF IsStr(el) THEN {<<[fn |-> "getFor", alias |-> "", arg |-> el]>>}
    ELSE {<<>>}

RECURSIVE ArrayCalls(_, _)
ArrayCalls(a, n) ==
    IF n = 0 THEN {<<>>}
    ELSE {x \o y : x \in ArrayCalls(a, n - 1), y \in ElementCalls(a[n])}

\* The lookups a whole @context of a known shape asks for: one per string,
\* one per alias/value pair, maps in any order.
ContextCalls(c) ==
    IF IsArr(c) THEN ArrayCalls(c.a, Len(c.a)) ELSE ElementCalls(c)

IsPrefix(s, t) == Len(s) <= Len(t) /\ \A i \in DOMAIN s : s[i] = t[i]

KnownShape(c) == IsStr(c) \/ IsArr(c) \/ IsMap(c)

\* C12: under an "@context" that is a string, a sequence or a mapping, the
\* registry lookups made are, in order, a beginning of the lookups the
\* @context asks for (getFor per string, getAliased per alias with a string,
\* getAliasedObject per alias with a mapping, each with that alias and
\* value), and all of them once resolution has succeeded; every lookup but
\* the last succeeded; a failed lookup ends the parse with the registry's
\* error and nothing is traversed; the handlers collected are the lookups'
\* answers in the order of the lookups.
AliasResolution ==
    KnownShape(ContextValue) =>
        /\ \E full \in ContextCalls(ContextValue) :
              /\ IsPrefix(regCalls, full)
              /\ vocabulary # Nil => regCalls = full
        /\ \A i \in 1..(Len(regCalls) - 1) : Answer(regCalls[i]).err = NoErr
        /\ regCalls # <<>> =>
              LET got == Answer(Last(regCalls))
              IN  IF got.err # NoErr
                  THEN /\ pc = "done"
                       /\ err = got.err
                       /\ vocabulary = Nil
                       /\ frames = <<>>
                  ELSE /\ err.kind # "registry"
                       /\ nodes = IF vocabulary = Nil
                                  THEN Answers(regCalls, Len(regCalls))
                                  ELSE jsonLDNodes \o Answers(regCalls, Len(regCalls))

\* C12 witness: a mapping with two aliases, one naming an ontology and one
\* carrying an object, has been resolved by one lookup of each kind.
AliasResolutionWitness ==
    /\ IsMap(ContextValue)
    /\ vocabulary # Nil
    /\ Len(regCalls) = 2
    /\ {regCalls[1].fn, regCalls[2].fn} = {"getAliased", "getAliasedObject"}
    /\ regCalls[1].alias # regCalls[2].alias

\* C12 witness of the failure: the second lookup of a sequence failed.
AliasResolutionFailureWitness ==
    /\ IsArr(ContextValue)
    /\ Len(regCalls) = 2
    /\ err = ErrRegistry("U")
    /\ pc = "done"

\* The failure the latest handler call returned, NoErr if none.
LatestFailure ==
    IF cur = NoCall THEN NoErr
    ELSE Failure(Last(cur.calls).out, Last(cur.calls).h)

\* C13 as stated: once a handler call (through enter/apply/exitFirstNode
\* or as the whole-document override) has returned a failure, the parse
\* is over, no further call having been made, and ParseVocabulary returns
\* that failure.
HandlerFailurePropagates ==
    LatestFailure # NoErr =>
        /\ pc = "done"
        /\ frames = <<>>
        /\ err = LatestFailure

\* The same for the calls made through enter/apply/exitFirstNode alone.
FirstNodeFailurePropagates ==
    (LatestFailure # NoErr /\ cur.op # "override") =>
        /\ pc = "done"
        /\ frames = <<>>
        /\ err = LatestFailure

\* C14: after SetURI(s) on an entity of any kind, if s does not parse as a
\* URI the call returned the parse error and the entity has no URI,
\* whatever URI it had before; if s parses the call returned no error and
\* the URI is the parsed one; the entity is otherwise as it was.
URIAssignment ==
    uriRet.op = "SetURI" =>
        LET got == urlParse(uriRet.s)
        IN  /\ got.err # NoErr =>
                /\ uriRet.err = got.err
                /\ ent.URI = NilURL
            /\ got.err = NoErr =>
                /\ uriRet.err = NoErr
                /\ ent.URI = got.url
                /\ ent.URI # NilURL
            /\ ent.kind = uriRet.before.kind
            /\ ent.Name = uriRet.before.Name

\* C14 witness: a type that had a URI was given a string that does not
\* parse, and a reference a string with a bad escape.
URIAssignmentWitness ==
    /\ uriRet.op = "SetURI"
    /\ uriRet.err # NoErr
    /\ uriRet.before.hadURI
    /\ ent.URI = NilURL
    /\ ent.kind = "VocabularyType"

FirstNodeCall == cur.op \in {"enter", "apply", "exit"}

\* C15: in every enter/apply/exitFirstNode call the handlers invoked are
\* those of the call's list from its first on, in list order; every one
\* but the last invoked reported not handled and no failure, so the call
\* ended at the first handler that reported handled or failed; it ends
\* with the error naming the key exactly when the whole list was tried and
\* every handler reported not handled without failure.
FirstMatchWins ==
    FirstNodeCall =>
        /\ Len(cur.calls) <= Len(cur.list)
        /\ \A c \in DOMAIN cur.calls : cur.calls[c].h = cur.list[c]
        /\ \A c \in 1..(Len(cur.calls) - 1) : cur.calls[c].out = "declined"
        /\ Last(cur.calls).out = "declined" =>
              \/ /\ InDoApply
                 /\ Top.st = "call"
                 /\ Top.idx = Len(cur.calls) + 1
                 /\ Top.list = cur.list
                 /\ Top.k = cur.key
                 /\ Top.op = cur.op
              \/ /\ Failed
                 /\ Exhausted
                 /\ err = [kind |-> "no RDFNode applicable", op |-> cur.op, key |-> cur.key]
        /\ (Failed /\ err.kind = "no RDFNode applicable") => Exhausted
        /\ (Failed /\ Last(cur.calls).out \in {"handledErr", "declinedErr"}) =>
              err = ErrHandler(Last(cur.calls).h)

\* C15 witness: a parse went through whose last call, made with a list of
\* several handlers, ended at the list's first handler.
FirstMatchWinsWitness ==
    /\ Succeeded
    /\ FirstNodeCall
    /\ Len(cur.list) >= 2
    /\ Len(cur.calls) = 1
    /\ cur.calls[1].out = "handled"

\* The doApply frames of keys whose value is a nested object.
ObjectFrames == {j \in DoApplyFrames : IsMap(frames[j].v)}

\* The keys of an object that apply hands to doApply.
Dispatched(m) ==
    {k \in DOMAIN m : ~Skipped(k)} \cup (IF TypeKey(m) = Nil THEN {} ELSE {TypeKey(m)})

\* exitFirstNode has been begun, or has returned.
AtExit(f) == (f.st = "call" /\ f.op = "exit") \/ f.st = "ret"

\* C16 as stated: by the time exit is called for a key with a nested
\* object, every key of the nested object has been dispatched.
NestedKeysAllDispatched ==
    \A j \in ObjectFrames :
        AtExit(frames[j]) => Range(frames[j].sub) = DOMAIN frames[j].v.m

\* The failure a parse ended with is that of the handler call made last.
FailedAtLatestCall ==
    \/ LatestFailure # NoErr /\ err \in {LatestFailure, ErrRequestedNode}
    \/ /\ Exhausted
       /\ err = [kind |-> "no RDFNode applicable", op |-> cur.op, key |-> cur.key]
    \/ cur.op = "override" /\ err = ErrRequestedNode

\* C16 amended: for a key with a nested object doApply calls enter once,
\* then apply on the nested object, then exit once, and never
\* applyFirstNode; the nested apply has returned before exit is called,
\* having handed to doApply each key of the object that apply dispatches,
\* or none when it gave the object to the whole-document override.  Only
\* the innermost doApply calls handlers and every enclosing one is between
\* its enter and its exit, so that enters and exits are well nested.  A
\* parse that failed ended at the failing call: no exit was called after.
NestedBracketing ==
    /\ \A j \in ObjectFrames :
        LET f == frames[j]
        IN  f.st # "start" =>
              /\ f.st = "call" => f.op \in {"enter", "exit"}
              /\ (f.st = "call" /\ f.op = "enter") => f.enters = 0 /\ f.exits = 0
              /\ f.st = "recur" =>
                    /\ f.enters = 1 /\ f.exits = 0
                    /\ j > 1
                    /\ frames[j - 1].fn = "apply"
                    /\ frames[j - 1].input = f.v.m
              /\ AtExit(f) =>
                    /\ f.enters = 1
                    /\ f.exits = IF f.st = "ret" THEN 1 ELSE 0
                    /\ IF f.subHij THEN f.sub = <<>>
                       ELSE /\ Range(f.sub) = Dispatched(f.v.m)
                            /\ Len(f.sub) = Cardinality(Dispatched(f.v.m))
    /\ \A j \in DoApplyFrames :
        /\ frames[j].st \in {"call", "ret", "start"} => j = 1
        /\ j > 1 =>
              /\ frames[j].st = "recur"
              /\ frames[j].enters = frames[j].exits + 1
              /\ frames[j - 1].fn = "apply"
    /\ (Failed /\ cur # NoCall) => FailedAtLatestCall
    /\ pc = "done" => frames = <<>>

\* C16 witness: the exit of an inner key has returned while the key
\* around it is still entered.
NestedBracketingWitness ==
    /\ Len(frames) >= 4
    /\ frames[1].fn = "doApply"
    /\ IsMap(frames[1].v)
    /\ frames[1].st = "ret"
    /\ frames[1].exits = 1
    /\ ~frames[1].subHij
    /\ frames[3].fn = "doApply"
    /\ IsMap(frames[3].v)
    /\ frames[3].st = "recur"

\* C17 as stated, the nested dispatches: a doApply running inside one
\* that consumed the next-level override uses the full list.
NestedUsesFullList ==
    \A i \in DoApplyFrames : \A j \in DoApplyFrames :
        (i < j /\ frames[j].armed /\ frames[i].st # "start") =>
            ~frames[i].armed /\ frames[i].list = nodes

\* The frame at height d above the bottom of a stack.
At(fs, d) == fs[Len(fs) - d]
Heights(fs) == 0..(Len(fs) - 1)

\* The step to come is a handler's: a call from enter/apply/exitFirstNode
\* or the whole-document override's Apply.
HandlerStep ==
    \/ InDoApply /\ Top.st = "call" /\ Top.idx <= Len(Top.list)
    \/ InApply /\ Top.st = "start" /\ Hijacked(ctx)

\* One step of the parser, as C17 amended allows it.
NextLevelScopeStep ==
    /\ \A d \in Heights(frames) \cap Heights(frames') :
        LET f == At(frames, d)
            g == At(frames', d)
        IN  (f.fn = "doApply" /\ g.fn = "doApply") =>
              /\ f.st # "start" => g.list = f.list /\ g.armed = f.armed
              /\ (f.st = "start" /\ g.st # "start") =>
                    IF ctx.OnlyApplyThisNodeNextLevel # Nil /\ ~ctx.OnlyApplied
                    THEN /\ g.list = <<ctx.OnlyApplyThisNodeNextLevel>>
                         /\ g.armed
                         /\ ctx'.OnlyApplied
                    ELSE /\ g.list = nodes
                         /\ ~g.armed
                         /\ ctx' = ctx
    /\ (InDoApply /\ Top.st = "call") =>
        IF Top.idx <= Len(Top.list)
        THEN /\ cur'.list = Top.list
             /\ cur'.armed = Top.armed
             /\ Last(cur'.calls).h = Top.list[Top.idx]
             /\ cur'.op = Top.op
        ELSE /\ pc' = "done"
             /\ err' = [kind |-> "no RDFNode applicable", op |-> Top.op, key |-> Top.k]
             /\ Top.armed => Len(cur.calls) = 1 /\ Len(nodes) > 1
    /\ (ctx.OnlyApplied /\ ~ctx'.OnlyApplied) =>
        \/ HandlerStep
        \/ InDoApply /\ Top.armed /\ Top.st = "ret"
        \/ pc' = "done" /\ err' # NoErr

\* C17 amended: a doApply that starts with the next-level override set and
\* unconsumed uses the override handler alone for its enter, apply and
\* exit calls and marks the override consumed; any other doApply uses the
\* full list; the list is fixed when the doApply starts, whatever handlers
\* do to the override later; a key the override handler declines fails
\* with the error naming the key without the other handlers being tried.
\* A doApply nested inside uses the full list while the override stays
\* consumed, which the engine leaves it until the consuming doApply
\* returns; once a handler has set the override again, a nested doApply
\* consumes it in turn.
NextLevelScope == [][NextLevelScopeStep]_vars

\* C17 witness: a doApply that consumed the override is calling exit with
\* the override handler alone, a handler having cleared the override since.
NextLevelScopeWitness ==
    /\ InDoApply
    /\ Top.armed
    /\ Top.st = "call"
    /\ Top.op = "exit"
    /\ Len(Top.list) = 1
    /\ ctx.OnlyApplyThisNodeNextLevel = Nil
    /\ Top.sub # <<>>

\* The handler the step to come calls.
CalledHandler ==
    IF InDoApply THEN Top.list[Top.idx] ELSE ctx.OnlyApplyThisNode

\* No accessor but the two of the whole-document override changes it.
OtherAccessorsKeep(p) ==
    /\ \A h \in Handlers :
          SetOnlyApplyThisNodeNextLevel(p, h).OnlyApplyThisNode = p.OnlyApplyThisNode
    /\ ResetOnlyAppliedThisNodeNextLevel(p).OnlyApplyThisNode = p.OnlyApplyThisNode
    /\ GetNextNodes(p, nodes).p.OnlyApplyThisNode = p.OnlyApplyThisNode
    /\ \A armed \in BOOLEAN : clearFn(p, armed).OnlyApplyThisNode = p.OnlyApplyThisNode
    /\ Push(p).OnlyApplyThisNode = p.OnlyApplyThisNode
    /\ Pop(Push(p)).OnlyApplyThisNode = p.OnlyApplyThisNode
    /\ Reset(p).OnlyApplyThisNode = p.OnlyApplyThisNode

\* One step of the parser, as C18 allows it.
WholeDocumentOverrideStep ==
    /\ ctx'.OnlyApplyThisNode # ctx.OnlyApplyThisNode =>
          /\ HandlerStep
          /\ ctx'.OnlyApplyThisNode \in {Nil, CalledHandler}
    /\ (InApply /\ Top.st = "start" /\ ctx.OnlyApplyThisNode # Nil) =>
          /\ cur'.op = "override"
          /\ cur'.calls[1].h = ctx.OnlyApplyThisNode
          /\ \A d \in Heights(frames') : At(frames', d) = At(frames, d) \/ d = Len(frames') - 1
    /\ OtherAccessorsKeep(ctx')

\* C18: OnlyApplyThisNode changes only in a step in which a handler is
\* called, to that handler (SetOnlyApplyThisNode) or to nil
\* (ResetOnlyApplyThisNode); the steps of apply and doApply with
\* GetNextNodes and its clearFn, and Push, Pop, Reset and the next-level
\* accessors, leave it as it is; every apply that begins while it is set
\* hands its object to that handler and starts no dispatch.
WholeDocumentOverrideStays == [][WholeDocumentOverrideStep]_vars

\* C18 witness: the apply of an array's second object begins under the
\* override that the apply of the first was given to.
WholeDocumentOverrideWitness ==
    /\ InApply
    /\ Top.st = "start"
    /\ ctx.OnlyApplyThisNode # Nil
    /\ Len(frames) = 3
    /\ frames[2].i = 2
    /\ frames[2].subHij
    /\ cur.op = "enter"
    /\ \A c \in DOMAIN cur.calls : cur.calls[c].whole = ctx.OnlyApplyThisNode

\* Two contexts agree on every field but Current, Name and Stack.
SameButScope(p, q) ==
    [p EXCEPT !.Current = NoEntity, !.Name = "", !.Stack = <<>>]
        = [q EXCEPT !.Current = NoEntity, !.Name = "", !.Stack = <<>>]

\* Pushing e after what p holds, and popping twice.
PushTwicePopTwice(p, e) ==
    LET p1 == Push(p)
        p2 == Push([p1 EXCEPT !.Current = e])
        q1 == Pop(p2)
        q2 == Pop(q1)
    IN  /\ q1.Current = e
        /\ q1.Stack = p1.Stack
        /\ q2.Current = p.Current
        /\ q2.Stack = p.Stack

\* C19: Push puts Current at the front of Stack and empties Current,
\* keeping Name and the rest of Stack; Pop on a Stack that is not empty
\* makes its front Current, drops it from Stack, and sets Name to that
\* entity's name if it has GetName, otherwise keeps Name; Pop on an empty
\* Stack panics; Push then Pop gives Current and Stack back, as do two
\* Pushes then two Pops, last in first out.
ScopeStack ==
    LET b == scopeRet.before
    IN  /\ scopeRet.op = "Push" =>
              /\ ctx.Stack = <<b.Current>> \o b.Stack
              /\ ctx.Current = NoEntity
              /\ ctx.Name = b.Name
              /\ SameButScope(ctx, b)
              /\ ~scopeRet.panic
        /\ (scopeRet.op = "Pop" /\ b.Stack # <<>>) =>
              /\ ctx.Current = b.Stack[1]
              /\ ctx.Stack = Tail(b.Stack)
              /\ ctx.Name = IF ctx.Current.kind \in EntityKinds
                            THEN ctx.Current.Name ELSE b.Name
              /\ SameButScope(ctx, b)
              /\ ~scopeRet.panic
        /\ (scopeRet.op = "Pop" /\ b.Stack = <<>>) => scopeRet.panic
        /\ scopeRet.panic => scopeRet.op = "Pop" /\ b.Stack = <<>>
        /\ LET q == Pop(Push(ctx))
           IN  q.Current = ctx.Current /\ q.Stack = ctx.Stack /\ SameButScope(q, ctx)
        /\ \A e \in ScopeEntities : PushTwicePopTwice(ctx, e)

\* C19 witness: a Pop on a Stack of two brought back a named entity and
\* changed Name to its name.
ScopeStackWitness ==
    /\ scopeRet.op = "Pop"
    /\ Len(scopeRet.before.Stack) = 2
    /\ ctx.Current.kind \in EntityKinds
    /\ ctx.Name = ctx.Current.Name
    /\ ctx.Name # scopeRet.before.Name
    /\ Len(ctx.Stack) = 1

\* C19 witness of the failure: a Pop on an empty Stack.
ScopeStackPanicWitness ==
    /\ scopeRet.panic
    /\ scopeRet.before.Current # NoEntity

NoDuplicates(q) == \A a \in DOMAIN q : \A b \in DOMAIN q : a # b => q[a] # q[b]

\* The range of an apply has passed over all its keys.
RangeDone(f) == f.st = "range" /\ Remaining(f) = {}

\* C20 as stated: in every object apply traverses, "@context" is never
\* handed to doApply and no key twice; when the remaining-keys pass
\* starts, each of "@type" and "type" the object has was handed to doApply
\* by the type pre-pass; when it ends, so was every other key.
SkippedKeysConsumed ==
    \A j \in ApplyFrames :
        LET f == frames[j]
        IN  /\ JSON_LD_CONTEXT \notin Range(f.disp)
            /\ NoDuplicates(f.disp)
            /\ f.st = "range" =>
                  \A k \in DOMAIN f.input \cap {JSON_LD_TYPE, JSON_LD_TYPE_AS} :
                      k \in Range(f.disp)
            /\ RangeDone(f) => Range(f.disp) = DOMAIN f.input \ {JSON_LD_CONTEXT}

\* The same with "type" left out of what must have been dispatched when
\* the object has "@type" as well.
DispatchedKeysOnce ==
    \A j \in ApplyFrames :
        LET f == frames[j]
        IN  /\ JSON_LD_CONTEXT \notin Range(f.disp)
            /\ NoDuplicates(f.disp)
            /\ f.st = "range" =>
                  \A k \in DOMAIN f.input \cap {JSON_LD_TYPE, JSON_LD_TYPE_AS} :
                      k \in Range(f.disp) <=> k = TypeKey(f.input)
            /\ RangeDone(f) => Range(f.disp) = Dispatched(f.input)

====
